---- MODULE Spec2Model ----
(***************************************************************************)
(* The gasless-transaction relayer of src/src/main.rs as a state machine.  *)
(*                                                                         *)
(* One sequential thread of control: main's loop polls every orchestrator  *)
(* URL (process_pending_transactions), which resolves the URL, fetches the *)
(* pending requests of every resolved address and runs relay_transaction   *)
(* on each request.  Every await on an external service (DNS, HTTP, chain  *)
(* RPC, price API) is one action whose result is chosen by the             *)
(* environment.                                                            *)
(***************************************************************************)
EXTENDS Integers, Sequences, FiniteSets, TLC

(***************************************************************************)
(* Bounds of the model.                                                    *)
(***************************************************************************)
\* number of configured orchestrator URLs (opts.transaction_api_url)
NumUrls == 2
\* largest number of socket addresses one URL resolves to
MaxAddrs == 2
\* largest number of requests in one orchestrator response
MaxTxs == 2
\* transaction hashes the chain may return are 1..MaxHash
MaxHash == 2
\* the estimator alone: gas estimates and gas prices 0..MaxGas, tip amounts
\* 0..MaxAmount (and the values of the 21000 gas, 20 gwei example)
MaxGas == 10
MaxAmount == 125
\* the chain has produced 0..MaxBlocks blocks on top of a transaction's block
\* when the wait for it returns
MaxBlocks == 1

(***************************************************************************)
(* Bytes, addresses and ABI words.                                         *)
(***************************************************************************)
\* an ABI word is 32 bytes, an address 20 bytes
WordLen == 32
AddrLen == 20

Zeros(n) == [i \in 1..n |-> 0]

\* the 40 hexadecimal digits after "0x" of the two reserved addresses
OX_100_ADDRESS == [i \in 1..40 |-> IF i = 38 THEN 1 ELSE 0]
OX_200_ADDRESS == [i \in 1..40 |-> IF i = 38 THEN 2 ELSE 0]

\* Address::from_str: two hexadecimal digits make one byte
AddressFromStr(s) == [i \in 1..AddrLen |-> 16 * s[2 * i - 1] + s[2 * i]]

\* slice data[from+1 .. from+len] (from is a 0-based offset)
Slice(data, from, len) == [i \in 1..len |-> data[from + i]]

(***************************************************************************)
(* Uint256 arithmetic.  A value is its sequence of base-Limb digits, least *)
(* significant first, without leading zero digits; <<>> is zero.  All the  *)
(* values of the model are far below 2^256.                                *)
(***************************************************************************)
Limb == 10000
Digits == Seq(Nat)

U256Norm[a \in Digits] ==
    IF a = <<>> THEN <<>>
    ELSE IF a[Len(a)] = 0 THEN U256Norm[SubSeq(a, 1, Len(a) - 1)]
    ELSE a

U256FromNat[n \in Nat] ==
    IF n = 0 THEN <<>> ELSE <<n % Limb>> \o U256FromNat[n \div Limb]

U256AddC[a \in Digits, b \in Digits, c \in Nat] ==
    IF a = <<>> /\ b = <<>> THEN U256FromNat[c]
    ELSE LET x == IF a = <<>> THEN 0 ELSE Head(a)
             y == IF b = <<>> THEN 0 ELSE Head(b)
             ra == IF a = <<>> THEN <<>> ELSE Tail(a)
             rb == IF b = <<>> THEN <<>> ELSE Tail(b)
         IN  <<(x + y + c) % Limb>> \o U256AddC[ra, rb, (x + y + c) \div Limb]

\* a + b
U256Add[a \in Digits, b \in Digits] == U256Norm[U256AddC[a, b, 0]]

U256MulSmallC[a \in Digits, m \in Nat, c \in Nat] ==
    IF a = <<>> THEN U256FromNat[c]
    ELSE <<(Head(a) * m + c) % Limb>>
             \o U256MulSmallC[Tail(a), m, (Head(a) * m + c) \div Limb]

\* a * m for 0 <= m <= Limb
U256MulSmall[a \in Digits, m \in Nat] == U256Norm[U256MulSmallC[a, m, 0]]

\* a * Limb
U256Shift[a \in Digits] == IF a = <<>> THEN <<>> ELSE <<0>> \o a

\* a * b
U256Mul[a \in Digits, b \in Digits] ==
    IF b = <<>> THEN <<>>
    ELSE U256Add[U256MulSmall[a, Head(b)], U256Shift[U256Mul[a, Tail(b)]]]

\* long division by 0 < d <= Limb, most significant digit first: the
\* quotient's digits and the remainder
U256DivRem[a \in Digits, d \in Nat] ==
    IF a = <<>> THEN [q |-> <<>>, r |-> 0]
    ELSE LET hi == U256DivRem[Tail(a), d]
         IN  [q |-> <<(hi.r * Limb + Head(a)) \div d>> \o hi.q,
              r |-> (hi.r * Limb + Head(a)) % d]

\* floor(a / d) for 0 < d <= Limb
U256Div[a \in Digits, d \in Nat] == U256Norm[U256DivRem[a, d].q]

\* a > b on the digits 1..i, the digits above i being equal
U256GtFrom[a \in Digits, b \in Digits, i \in Nat] ==
    IF i = 0 THEN FALSE
    ELSE IF a[i] # b[i] THEN a[i] > b[i]
    ELSE U256GtFrom[a, b, i - 1]

\* a > b
U256Gt[a \in Digits, b \in Digits] ==
    IF Len(a) # Len(b) THEN Len(a) > Len(b) ELSE U256GtFrom[a, b, Len(a)]

\* the value of the big-endian bytes bs, acc being that of bs[1..i-1]
U256FromBytesAcc[bs \in Digits, i \in Nat, acc \in Digits] ==
    IF i > Len(bs) THEN acc
    ELSE U256FromBytesAcc[bs, i + 1,
                          U256Add[U256MulSmall[acc, 256], U256FromNat[bs[i]]]]

U256FromBytes(bs) == U256FromBytesAcc[bs, 1, <<>>]

(***************************************************************************)
(* Requests (GaslessTransaction) and tips.  chain_id, callpath, conds, sig *)
(* and submitted_at are passed through uninterpreted and are left out.     *)
(***************************************************************************)
\* the address whose two low bytes are n
Addr(n) == [i \in 1..AddrLen |-> IF i = AddrLen - 1 THEN n \div 256
                                 ELSE IF i = AddrLen THEN n % 256 ELSE 0]
\* the address whose byte at position k is b, all others zero
AddrAt(k, b) == [i \in 1..AddrLen |-> IF i = k THEN b ELSE 0]

\* an ABI word holding an address (right-aligned) or a small integer
AddressWord(a) == Zeros(WordLen - AddrLen) \o a
NatWord(n) == Zeros(WordLen - 2) \o <<n \div 256, n % 256>>

\* the relayer tip as the contract lays it out: token, amount, receiver
TipBytes(token, amountWord, receiver) ==
    AddressWord(token) \o amountWord \o AddressWord(receiver)

GaslessTransaction(cmd, tip) == [cmd |-> cmd, tip |-> tip]

TipToken == Addr(4096)
ThirdParty == Addr(57005)
RelayerAddress == Addr(48879)

ReqSink == GaslessTransaction(<<1>>, TipBytes(TipToken, NatWord(100), AddressFromStr(OX_200_ADDRESS)))
ReqThirdParty == GaslessTransaction(<<1>>, TipBytes(TipToken, NatWord(100), ThirdParty))
ReqNoTip == GaslessTransaction(<<1>>, <<>>)
ReqNoCmd == GaslessTransaction(<<>>, <<>>)
ReqShortTip ==
    GaslessTransaction(<<1>>, SubSeq(TipBytes(TipToken, NatWord(100), RelayerAddress), 1, 3 * WordLen - 1))

\* the requests an orchestrator serves in the relay loop's specification
LoopRequests == {ReqSink, ReqThirdParty, ReqNoTip, ReqNoCmd, ReqShortTip}

\* the arrays of requests one address may return
TxArrays == UNION {[1..n -> LoopRequests] : n \in 0..MaxTxs}

(***************************************************************************)
(* clarity::abi::parse_address and parse_u128 (library): the 32-byte word  *)
(* at a byte offset; an error when the data is too short or, for the       *)
(* integer, when it does not fit 128 bits.                                 *)
(***************************************************************************)
ParseErr == [ok |-> FALSE, val |-> <<>>]
ParseOk(v) == [ok |-> TRUE, val |-> v]

parse_address(data, offset) ==
    IF Len(data) < offset + WordLen THEN ParseErr
    ELSE ParseOk(Slice(data, offset + WordLen - AddrLen, AddrLen))

parse_u128(data, offset) ==
    IF Len(data) < offset + WordLen THEN ParseErr
    ELSE IF Slice(data, offset, WordLen \div 2) # Zeros(WordLen \div 2) THEN ParseErr
    ELSE ParseOk(U256FromBytes(Slice(data, offset + WordLen \div 2, WordLen \div 2)))

\* a faulty variant: the receiver is read at the offset of the amount
DecodeTip_offset(data) ==
    LET token == parse_address(data, 0)
        amount == parse_u128(data, WordLen)
        receiver == parse_address(data, WordLen)
    IN  IF token.ok /\ amount.ok /\ receiver.ok
        THEN ParseOk([token |-> token.val, amount |-> amount.val,
                      receiver |-> receiver.val])
        ELSE ParseErr

\* the three fields of the tip, each parsed with ?: the first error is
\* returned and no field is kept
DecodeTip(data) ==
    LET token == parse_address(data, 0)
        amount == parse_u128(data, WordLen)
        receiver == parse_address(data, 2 * WordLen)
    IN  IF token.ok /\ amount.ok /\ receiver.ok
        THEN ParseOk([token |-> token.val, amount |-> amount.val,
                      receiver |-> receiver.val])
        ELSE ParseErr

(***************************************************************************)
(* Receiver policy.                                                        *)
(***************************************************************************)
\* faulty variants: every receiver is accepted; 0x100 is not accepted
is_valid_receiver_address_any(receiver, our) == TRUE

is_valid_receiver_address_one_sink(receiver, our) ==
    \/ receiver = AddressFromStr(OX_200_ADDRESS)
    \/ receiver = our

is_valid_receiver_address(receiver, our) ==
    \/ receiver = AddressFromStr(OX_100_ADDRESS)
    \/ receiver = AddressFromStr(OX_200_ADDRESS)
    \/ receiver = our

(***************************************************************************)
(* Profitability.                                                          *)
(***************************************************************************)
\* what the price API may answer: the request fails in transport, the status
\* is not a success, the body is no JSON number, or the body is the price
\* num/den (a negative price stands for every f64 that casts to 0)
Price(num, den) == [kind |-> "price", num |-> num, den |-> den]
PriceFailure(kind) == [kind |-> kind, num |-> 0, den |-> 1]
PriceFailures ==
    {PriceFailure("transport_err"), PriceFailure("status_err"), PriceFailure("body_err")}

Err(e) == [ok |-> FALSE, val |-> <<>>, err |-> e]
Ok(v) == [ok |-> TRUE, val |-> v, err |-> ""]

\* fetch_value_in_gas_token: Ok((amount * price) as u128) or the error; the
\* f64 product is exact for the amounts and prices of the model, and the cast
\* rounds towards zero and maps a negative product to 0
fetch_value_in_gas_token(response, amount) ==
    IF response.kind # "price" THEN Err(response.kind)
    ELSE IF response.num < 0 THEN Ok(<<>>)
    ELSE Ok(U256Div[U256MulSmall[amount, response.num], response.den])

\* gas_estimate + gas_estimate / 10, gas_estimate = gas_used * gas_price
MarginGasEstimate(gasUsed, gasPrice) ==
    LET gas_estimate == U256Mul[gasUsed, gasPrice]
    IN  U256Add[gas_estimate, U256Div[gas_estimate, 10]]

\* faulty variants: an oracle failure counts as profitable; the comparison
\* is >= instead of >
estimate_if_transaction_is_profitable_failopen(fetched, gasUsed, gasPrice) ==
    IF ~fetched.ok THEN TRUE
    ELSE U256Gt[fetched.val, MarginGasEstimate(gasUsed, gasPrice)]

estimate_if_transaction_is_profitable_ge(fetched, gasUsed, gasPrice) ==
    IF ~fetched.ok THEN FALSE
    ELSE \/ U256Gt[fetched.val, MarginGasEstimate(gasUsed, gasPrice)]
         \/ fetched.val = MarginGasEstimate(gasUsed, gasPrice)

\* the boolean estimate_if_transaction_is_profitable returns
estimate_if_transaction_is_profitable(fetched, gasUsed, gasPrice) ==
    IF ~fetched.ok THEN FALSE
    ELSE U256Gt[fetched.val, MarginGasEstimate(gasUsed, gasPrice)]

(***************************************************************************)
(* State.                                                                  *)
(***************************************************************************)
VARIABLES
    pc,            \* the statement the thread of control is at
    our_address,   \* private_key.to_address()
    url,           \* main: index of orchestrator_url in the for loop
    nAddrs,        \* process_pending_transactions: length of socket_addrs
    ip,            \* process_pending_transactions: index of ip in socket_addrs
    txs,           \* process_pending_transactions: the decoded response
    idx,           \* process_pending_transactions: index of tx in txs
    tip,           \* relay_transaction: (tip_token, tip_amount), <<>> if unset
    call,          \* relay_transaction: the prepared Transaction, <<>> if unset
    gas_used,      \* relay_transaction: <<gas>> once estimated
    gas_price,     \* relay_transaction: <<price>> once fetched
    value,         \* estimate_if_transaction_is_profitable: the fetch's result
    pending_tx,    \* relay_transaction: <<hash>> once broadcast
    ret,           \* what relay_transaction returned
    msg,           \* the line relay_transaction logged when returning
    pollRet,       \* what process_pending_transactions returned
    trace,         \* the external calls made for the current request
    processed,     \* indices of txs whose relay_transaction has returned
    failedAt,      \* first index of txs whose relay_transaction returned Err
    fetchLog,      \* the result of each address's fetch in the current poll
    cycleLog,      \* the URLs polled since the last sleep
    inflight,      \* requests whose relay_transaction has not returned
    outstanding,   \* broadcasts whose confirmation wait has not returned
    onchain,       \* the broadcast of the current request as the chain has it
    tracked,       \* <<r>>: the instances of request r are counted; <<>>: none
    served,        \* instances of the tracked request fetched in the current poll
    ran            \* calls of relay_transaction on it in the current poll

locals == <<tip, call, gas_used, gas_price, value, pending_tx>>
poller == <<nAddrs, ip, txs, idx>>
ghost == <<trace, processed, failedAt, fetchLog, cycleLog, inflight, outstanding,
           onchain, served, ran>>
\* what no step changes
fixed == <<our_address, tracked>>
vars == <<pc, fixed, url, poller, locals, ret, msg, pollRet, ghost>>

NoRet == Ok(<<>>)
Call(op, ok) == [op |-> op, ok |-> ok]

\* nothing was broadcast; a broadcast with hash h of which the chain has
\* shown b blocks (its own block not counted), b = -1 while the relayer has
\* not seen it in a block, and for which wait_for_transaction returned w
\* ("" while it has not returned)
NoTx == [hash |-> 0, blocks |-> -1, wait |-> ""]
ChainTx(h, b, w) == [hash |-> h, blocks |-> b, wait |-> w]

\* the instances of the tracked request in the array a
Count(a) == Cardinality({i \in DOMAIN a : <<a[i]>> = tracked})

\* the request relay_transaction is running on
tx == txs[idx]
\* the identity of that request instance within the cycle
reqId == <<url, ip, idx>>

\* a faulty variant: the gas estimate and the gas price outlive the call
ResetLocals_stale ==
    /\ tip' = <<>>
    /\ call' = <<>>
    /\ value' = NoRet
    /\ pending_tx' = <<>>
    /\ UNCHANGED <<gas_used, gas_price>>

\* the locals of relay_transaction do not outlive the call
ResetLocals ==
    /\ tip' = <<>>
    /\ call' = <<>>
    /\ gas_used' = <<>>
    /\ gas_price' = <<>>
    /\ value' = NoRet
    /\ pending_tx' = <<>>

Init ==
    /\ pc = "main_for"
    /\ our_address = RelayerAddress
    /\ url = 0
    /\ nAddrs = 0
    /\ ip = 0
    /\ txs = <<>>
    /\ idx = 0
    /\ tip = <<>>
    /\ call = <<>>
    /\ gas_used = <<>>
    /\ gas_price = <<>>
    /\ value = NoRet
    /\ pending_tx = <<>>
    /\ ret = NoRet
    /\ msg = ""
    /\ pollRet = NoRet
    /\ trace = <<>>
    /\ processed = <<>>
    /\ failedAt = 0
    /\ fetchLog = <<>>
    /\ cycleLog = <<>>
    /\ inflight = {}
    /\ outstanding = {}
    /\ onchain = NoTx
    /\ tracked = <<>>
    /\ served = 0
    /\ ran = 0

(***************************************************************************)
(* What the environment may answer.                                        *)
(***************************************************************************)
GasUsedSet == {U256FromNat[10], U256FromNat[20]}
GasPriceSet == {U256FromNat[1], U256FromNat[5]}
PriceResponses ==
    PriceFailures \cup {Price(1, 1), Price(11, 100), Price(3, 25), Price(-1, 1)}
Hashes == 1..MaxHash
FetchFailures == {"transport_err", "status_err", "json_err"}

(***************************************************************************)
(* main: the relay loop.                                                   *)
(***************************************************************************)
\* for orchestrator_url in &opts.transaction_api_url: the next URL is polled,
\* or the loop is over and main goes to sleep
MainFor ==
    /\ pc = "main_for"
    /\ IF url < NumUrls
       THEN /\ url' = url + 1
            /\ cycleLog' = Append(cycleLog, url + 1)
            /\ pc' = "resolve"
       ELSE /\ pc' = "sleep"
            /\ UNCHANGED <<url, cycleLog>>
    /\ UNCHANGED <<fixed, poller, locals, ret, msg, pollRet,
                   trace, processed, failedAt, fetchLog, inflight, outstanding,
                   onchain, served, ran>>

\* a faulty variant: an Err of process_pending_transactions ends main
MainMatch_abort ==
    /\ pc = "main_match"
    /\ pc' = IF pollRet.ok THEN "main_for" ELSE "exit"
    /\ nAddrs' = 0
    /\ ip' = 0
    /\ txs' = <<>>
    /\ idx' = 0
    /\ processed' = <<>>
    /\ failedAt' = 0
    /\ fetchLog' = <<>>
    /\ served' = 0
    /\ ran' = 0
    /\ UNCHANGED <<fixed, url, locals, ret, msg, pollRet, trace, cycleLog,
                   inflight, outstanding, onchain>>

\* if let Err(e) = process_pending_transactions(..).await { error!(..) }
MainMatch ==
    /\ pc = "main_match"
    /\ pc' = "main_for"
    /\ nAddrs' = 0
    /\ ip' = 0
    /\ txs' = <<>>
    /\ idx' = 0
    /\ processed' = <<>>
    /\ failedAt' = 0
    /\ fetchLog' = <<>>
    /\ served' = 0
    /\ ran' = 0
    /\ UNCHANGED <<fixed, url, locals, ret, msg, pollRet, trace, cycleLog,
                   inflight, outstanding, onchain>>

\* sleep(Duration::from_secs(opts.poll_interval)), then the next cycle
Sleep ==
    /\ pc = "sleep"
    /\ pc' = "main_for"
    /\ url' = 0
    /\ cycleLog' = <<>>
    /\ UNCHANGED <<fixed, poller, locals, ret, msg, pollRet,
                   trace, processed, failedAt, fetchLog, inflight, outstanding,
                   onchain, served, ran>>

(***************************************************************************)
(* process_pending_transactions.                                           *)
(***************************************************************************)
\* process_pending_transactions returns r to main
PollReturn(r) ==
    /\ pollRet' = r
    /\ pc' = "main_match"

\* to_socket_addrs(): the resolution fails, or yields 1..MaxAddrs addresses
Resolve ==
    /\ pc = "resolve"
    /\ \/ /\ PollReturn(Err("resolve_err"))
          /\ UNCHANGED poller
       \/ /\ \E n \in 1..MaxAddrs : nAddrs' = n
          /\ ip' = 0
          /\ txs' = <<>>
          /\ idx' = 0
          /\ pc' = "for_ip"
          /\ pollRet' = NoRet
    /\ UNCHANGED <<fixed, url, locals, ret, msg, ghost>>

\* for ip in socket_addrs: the next address, or Ok(()) after the last one
ForIp ==
    /\ pc = "for_ip"
    /\ IF ip < nAddrs
       THEN /\ ip' = ip + 1
            /\ pc' = "fetch"
            /\ UNCHANGED pollRet
       ELSE /\ PollReturn(Ok(<<>>))
            /\ UNCHANGED ip
    /\ UNCHANGED <<fixed, url, nAddrs, txs, idx, locals, ret, msg, ghost>>

\* a failed fetch: what the ? operators and the return Err(..) do
FetchFailed(e) == PollReturn(Err(e))

\* GET {orchestrator_url}/orchestrator/pending from ip, and the decoding of
\* its body
Fetch ==
    /\ pc = "fetch"
    /\ processed' = <<>>
    /\ failedAt' = 0
    /\ \/ \E e \in FetchFailures :
             /\ fetchLog' = Append(fetchLog, e)
             /\ FetchFailed(e)
             /\ UNCHANGED <<txs, idx, served>>
       \/ \E a \in TxArrays :
             /\ fetchLog' = Append(fetchLog, "ok")
             /\ txs' = a
             /\ idx' = 0
             /\ served' = served + Count(a)
             /\ pc' = "for_tx"
             /\ UNCHANGED pollRet
    /\ UNCHANGED <<fixed, url, nAddrs, ip, locals, ret, msg, trace,
                   cycleLog, inflight, outstanding, onchain, ran>>

\* a faulty variant: a request that was relayed before in this poll is
\* skipped
ForTx_dedup ==
    /\ pc = "for_tx"
    /\ IF idx < Len(txs)
       THEN /\ idx' = idx + 1
            /\ IF <<txs[idx + 1]>> = tracked /\ ran > 0
               THEN /\ pc' = "for_tx"
                    /\ UNCHANGED <<inflight, ran>>
               ELSE /\ pc' = "relay"
                    /\ inflight' = inflight \cup {<<url, ip, idx + 1>>}
                    /\ ran' = IF <<txs[idx + 1]>> = tracked THEN ran + 1 ELSE ran
       ELSE /\ pc' = "for_ip"
            /\ UNCHANGED <<idx, inflight, ran>>
    /\ UNCHANGED <<fixed, url, nAddrs, ip, txs, locals, ret, msg, pollRet,
                   trace, processed, failedAt, fetchLog, cycleLog, outstanding,
                   onchain, served>>

\* for (idx, tx) in txs.iter().enumerate(): relay_transaction is called on
\* the next request, or the array is done
ForTx ==
    /\ pc = "for_tx"
    /\ IF idx < Len(txs)
       THEN /\ idx' = idx + 1
            /\ pc' = "relay"
            /\ inflight' = inflight \cup {<<url, ip, idx + 1>>}
            /\ ran' = IF <<txs[idx + 1]>> = tracked THEN ran + 1 ELSE ran
       ELSE /\ pc' = "for_ip"
            /\ UNCHANGED <<idx, inflight, ran>>
    /\ UNCHANGED <<fixed, url, nAddrs, ip, txs, locals, ret, msg, pollRet,
                   trace, processed, failedAt, fetchLog, cycleLog, outstanding,
                   onchain, served>>

\* a faulty variant: an Err of relay_transaction is propagated with ?
PollMatch_propagate ==
    /\ pc = "poll_match"
    /\ processed' = Append(processed, idx)
    /\ failedAt' = IF ~ret.ok /\ failedAt = 0 THEN idx ELSE failedAt
    /\ IF ret.ok
       THEN pc' = "for_tx" /\ UNCHANGED pollRet
       ELSE PollReturn(Err(ret.err))
    /\ ret' = NoRet
    /\ msg' = ""
    /\ ResetLocals
    /\ trace' = <<>>
    /\ onchain' = NoTx
    /\ UNCHANGED <<fixed, url, poller, fetchLog, cycleLog,
                   inflight, outstanding, served, ran>>

\* match relay_transaction(..).await: every arm only logs
PollMatch ==
    /\ pc = "poll_match"
    /\ processed' = Append(processed, idx)
    /\ failedAt' = IF ~ret.ok /\ failedAt = 0 THEN idx ELSE failedAt
    /\ pc' = "for_tx"
    /\ ret' = NoRet
    /\ msg' = ""
    /\ ResetLocals
    /\ trace' = <<>>
    /\ onchain' = NoTx
    /\ UNCHANGED <<fixed, url, poller, pollRet, fetchLog, cycleLog,
                   inflight, outstanding, served, ran>>

(***************************************************************************)
(* relay_transaction.                                                      *)
(***************************************************************************)
\* relay_transaction returns r, the last line it logged at info or error
\* level being m
RelayReturn(r, m) ==
    /\ ret' = r
    /\ msg' = m
    /\ pc' = "poll_match"
    /\ inflight' = inflight \ {reqId}

\* tx.cmd.is_empty() (the faulty variant never sees an empty cmd)
CmdIsEmpty_never(t) == FALSE

CmdIsEmpty(t) == t.cmd = <<>>

\* tx.tip.is_empty() (the faulty variant never sees an empty tip)
TipIsEmpty_never(t) == FALSE

TipIsEmpty(t) == t.tip = <<>>

\* the checks of cmd and tip, the decoding of the tip and the receiver policy
RelayDecode ==
    /\ pc = "relay"
    /\ IF CmdIsEmpty(tx)
       THEN /\ RelayReturn(Err("Empty transaction command data"),
                           "Transaction command data is empty, skipping transaction")
            /\ UNCHANGED tip
       ELSE IF TipIsEmpty(tx)
       THEN /\ RelayReturn(Ok(<<>>), "Transaction with no tip data, skipping")
            /\ UNCHANGED tip
       ELSE LET decoded == DecodeTip(tx.tip)
            IN  IF ~decoded.ok
                THEN /\ RelayReturn(Err("parse_err"), "")
                     /\ UNCHANGED tip
                ELSE IF is_valid_receiver_address(decoded.val.receiver, our_address)
                THEN /\ tip' = <<decoded.val.token, decoded.val.amount>>
                     /\ pc' = "build"
                     /\ UNCHANGED <<ret, msg, inflight>>
                ELSE /\ RelayReturn(Ok(<<>>),
                                    "Transaction with invalid receiver address, skipping")
                     /\ UNCHANGED tip
    /\ UNCHANGED <<fixed, url, poller, call, gas_used, gas_price, value,
                   pending_tx, pollRet, trace, processed, failedAt, fetchLog,
                   cycleLog, outstanding,
                   onchain, served, ran>>

\* user_cmd_relayer_tx(..).await: the call is built and prepared, or not
UserCmdRelayerTx ==
    /\ pc = "build"
    /\ \/ /\ trace' = Append(trace, Call("build", TRUE))
          /\ call' = <<tx>>
          /\ pc' = "estimate_gas"
          /\ UNCHANGED <<ret, msg, inflight>>
       \/ /\ trace' = Append(trace, Call("build", FALSE))
          /\ RelayReturn(Err("prepare_err"), "")
          /\ UNCHANGED call
    /\ UNCHANGED <<fixed, url, poller, tip, gas_used, gas_price, value,
                   pending_tx, pollRet, processed, failedAt, fetchLog, cycleLog,
                   outstanding, onchain, served, ran>>

\* a faulty variant: a failed simulation falls back to a default estimate
EthEstimateGas_fallback ==
    /\ pc = "estimate_gas"
    /\ \/ /\ trace' = Append(trace, Call("estimate_gas", TRUE))
          /\ \E g \in GasUsedSet : gas_used' = <<g>>
       \/ /\ trace' = Append(trace, Call("estimate_gas", FALSE))
          /\ gas_used' = <<U256FromNat[20]>>
    /\ pc' = "gas_price"
    /\ UNCHANGED <<fixed, url, poller, tip, call, gas_price, value,
                   pending_tx, ret, msg, pollRet, processed, failedAt, fetchLog,
                   cycleLog, inflight, outstanding, onchain, served, ran>>

\* web3.eth_estimate_gas(tx_req).await
EthEstimateGas ==
    /\ pc = "estimate_gas"
    /\ \/ /\ trace' = Append(trace, Call("estimate_gas", TRUE))
          /\ \E g \in GasUsedSet : gas_used' = <<g>>
          /\ pc' = "gas_price"
          /\ UNCHANGED <<ret, msg, inflight>>
       \/ /\ trace' = Append(trace, Call("estimate_gas", FALSE))
          /\ RelayReturn(Err("estimate_gas_err"), "Failed to estimate gas")
          /\ UNCHANGED gas_used
    /\ UNCHANGED <<fixed, url, poller, tip, call, gas_price, value,
                   pending_tx, pollRet, processed, failedAt, fetchLog, cycleLog,
                   outstanding, onchain, served, ran>>

\* web3.eth_gas_price().await
EthGasPrice ==
    /\ pc = "gas_price"
    /\ \/ /\ trace' = Append(trace, Call("gas_price", TRUE))
          /\ \E g \in GasPriceSet : gas_price' = <<g>>
          /\ pc' = "profit"
          /\ UNCHANGED <<ret, msg, inflight>>
       \/ /\ trace' = Append(trace, Call("gas_price", FALSE))
          /\ RelayReturn(Err("gas_price_err"), "")
          /\ UNCHANGED gas_price
    /\ UNCHANGED <<fixed, url, poller, tip, call, gas_used, value,
                   pending_tx, pollRet, processed, failedAt, fetchLog, cycleLog,
                   outstanding, onchain, served, ran>>

\* if estimate_if_transaction_is_profitable(..).await: the broadcast is gated
\* by the estimator's answer (the faulty variant broadcasts whatever it is)
Gate_ignored(profitable) == TRUE

Gate(profitable) == profitable

\* estimate_if_transaction_is_profitable(..).await, with its one call of the
\* price API, and the branch on its result
EstimateProfit ==
    /\ pc = "profit"
    /\ \E response \in PriceResponses :
          LET fetched == fetch_value_in_gas_token(response, tip[2])
              profitable == estimate_if_transaction_is_profitable(
                                fetched, gas_used[1], gas_price[1])
          IN  /\ value' = fetched
              /\ trace' = trace \o <<Call("oracle", fetched.ok),
                                     Call("estimator", profitable)>>
              /\ IF Gate(profitable)
                 THEN /\ pc' = "send"
                      /\ UNCHANGED <<ret, msg, inflight>>
                 ELSE RelayReturn(Ok(<<>>), "Transaction is not profitable, skipping")
    /\ UNCHANGED <<fixed, url, poller, tip, call, gas_used, gas_price,
                   pending_tx, pollRet, processed, failedAt, fetchLog, cycleLog,
                   outstanding, onchain, served, ran>>

\* a faulty variant: the broadcast is not followed by the confirmation wait
SendOk_nowait(h) ==
    /\ pending_tx' = <<h>>
    /\ outstanding' = outstanding \cup {<<reqId, h>>}
    /\ onchain' = ChainTx(h, -1, "")
    /\ RelayReturn(Ok(<<h>>), "Transaction submitted with hash, waiting")

\* Ok(pending_tx) of the broadcast: relay_transaction goes on to wait
SendOk(h) ==
    /\ pending_tx' = <<h>>
    /\ outstanding' = outstanding \cup {<<reqId, h>>}
    /\ onchain' = ChainTx(h, -1, "")
    /\ pc' = "wait"
    /\ UNCHANGED <<ret, msg, inflight>>

\* web3.send_prepared_transaction(call).await
SendPreparedTransaction ==
    /\ pc = "send"
    /\ \/ /\ trace' = Append(trace, Call("send", TRUE))
          /\ \E h \in Hashes : SendOk(h)
       \/ /\ trace' = Append(trace, Call("send", FALSE))
          /\ RelayReturn(Err("send_err"), "Transaction failed")
          /\ UNCHANGED <<pending_tx, outstanding, onchain>>
    /\ UNCHANGED <<fixed, url, poller, tip, call, gas_used, gas_price,
                   value, pollRet, processed, failedAt, fetchLog, cycleLog,
                   served, ran>>

\* opts.confirmation_blocks as the operator configures it (12 by default)
confirmation_blocks == 1

\* blocks_to_wait, the third argument of wait_for_transaction: None, or
\* <<n>> for Some(n)
BlocksToWait == <<>>

\* what wait_for_transaction (library) needs to return Ok: the transaction
\* is in a block and, with Some(n), n blocks have been produced on top of it
WaitIsOver(blocks, blocks_to_wait) ==
    /\ blocks >= 0
    /\ blocks_to_wait # <<>> => blocks >= blocks_to_wait[1]

\* a faulty variant: the error of the wait is returned as the failure of a
\* broadcast is
WaitFailed_collapsed(e) == RelayReturn(Err("send_err"), "Transaction failed")

\* Err(e) of the wait: the error is logged and returned
WaitFailed(e) == RelayReturn(Err(e), "Error waiting for transaction confirmation")

\* web3.wait_for_transaction(pending_tx, web3.get_timeout(), None).await: Ok
\* as soon as the wait is over, or the timeout fires, or an RPC fails
WaitForTransaction ==
    /\ pc = "wait"
    /\ outstanding' = outstanding \ {<<reqId, pending_tx[1]>>}
    /\ \/ /\ trace' = Append(trace, Call("wait", TRUE))
          /\ \E b \in 0..MaxBlocks :
                /\ WaitIsOver(b, BlocksToWait)
                /\ onchain' = ChainTx(pending_tx[1], b, "ok")
          /\ pc' = "receipt"
          /\ UNCHANGED <<ret, msg, inflight>>
       \/ /\ trace' = Append(trace, Call("wait", FALSE))
          /\ \E e \in {"timeout", "rpc_err"} :
                /\ onchain' = ChainTx(pending_tx[1], -1, e)
                /\ WaitFailed(e)
    /\ UNCHANGED <<fixed, url, poller, locals, pollRet, processed,
                   failedAt, fetchLog, cycleLog, served, ran>>

\* faulty variants: the hash is dropped from the result; an Err of the receipt
\* query is propagated with ?
EthGetTransactionReceipt_none ==
    /\ pc = "receipt"
    /\ \E ok \in BOOLEAN : trace' = Append(trace, Call("receipt", ok))
    /\ RelayReturn(Ok(<<>>), "Receipt is")
    /\ UNCHANGED <<fixed, url, poller, locals, pollRet, processed,
                   failedAt, fetchLog, cycleLog, outstanding,
                   onchain, served, ran>>

EthGetTransactionReceipt_propagate ==
    /\ pc = "receipt"
    /\ \E ok \in BOOLEAN :
          /\ trace' = Append(trace, Call("receipt", ok))
          /\ IF ok THEN RelayReturn(Ok(pending_tx), "Receipt is")
                   ELSE RelayReturn(Err("receipt_err"), "")
    /\ UNCHANGED <<fixed, url, poller, locals, pollRet, processed,
                   failedAt, fetchLog, cycleLog, outstanding,
                   onchain, served, ran>>

\* web3.eth_get_transaction_receipt(pending_tx).await: the receipt is logged
EthGetTransactionReceipt ==
    /\ pc = "receipt"
    /\ \E ok \in BOOLEAN : trace' = Append(trace, Call("receipt", ok))
    /\ RelayReturn(Ok(pending_tx), "Receipt is")
    /\ UNCHANGED <<fixed, url, poller, locals, pollRet, processed,
                   failedAt, fetchLog, cycleLog, outstanding,
                   onchain, served, ran>>

(***************************************************************************)
(* The relayer.                                                            *)
(***************************************************************************)
RelayTransaction ==
    \/ RelayDecode
    \/ UserCmdRelayerTx
    \/ EthEstimateGas
    \/ EthGasPrice
    \/ EstimateProfit
    \/ SendPreparedTransaction
    \/ WaitForTransaction
    \/ EthGetTransactionReceipt

ProcessPendingTransactions ==
    \/ Resolve
    \/ ForIp
    \/ Fetch
    \/ ForTx
    \/ PollMatch

Next ==
    \/ MainFor
    \/ MainMatch
    \/ Sleep
    \/ ProcessPendingTransactions
    \/ RelayTransaction

Spec == Init /\ [][Next]_vars

\* every external call returns, and the thread of control is never suspended
\* for ever
FairSpec == Spec /\ WF_vars(Next)

(***************************************************************************)
(* estimate_if_transaction_is_profitable on its own: relay_transaction is  *)
(* about to call it, for every tip amount, gas estimate and gas price of   *)
(* the sets below.                                                         *)
(***************************************************************************)
\* an ABI word holding the integer of the big-endian bytes bs
BytesWord(bs) == Zeros(WordLen - Len(bs)) \o bs

\* 462000000000000 and 462000000000001 as bytes
ExampleThresholdBytes == <<1, 164, 47, 193, 226, 224, 0>>
ExampleAboveBytes == <<1, 164, 47, 193, 226, 224, 1>>

ProfitAmountWords ==
    {NatWord(n) : n \in 0..MaxAmount \cup {23100, 23101}}
        \cup {BytesWord(ExampleThresholdBytes), BytesWord(ExampleAboveBytes)}
ProfitRequests ==
    {GaslessTransaction(<<1>>, TipBytes(TipToken, w, AddressFromStr(OX_100_ADDRESS))) :
        w \in ProfitAmountWords}
\* 21000 gas units and 20 gwei among them
ProfitGasUsed == {U256FromNat[n] : n \in 0..MaxGas} \cup {<<1000, 2>>}
ProfitGasPrice == {U256FromNat[n] : n \in 0..MaxGas} \cup {<<0, 0, 200>>}

InitProfit ==
    /\ pc = "profit"
    /\ our_address = RelayerAddress
    /\ url = 1
    /\ nAddrs = 1
    /\ ip = 1
    /\ txs \in {<<r>> : r \in ProfitRequests}
    /\ idx = 1
    /\ tip = <<parse_address(txs[1].tip, 0).val, parse_u128(txs[1].tip, WordLen).val>>
    /\ call = <<txs[1]>>
    /\ gas_used \in {<<g>> : g \in ProfitGasUsed}
    /\ gas_price \in {<<g>> : g \in ProfitGasPrice}
    /\ value = NoRet
    /\ pending_tx = <<>>
    /\ ret = NoRet
    /\ msg = ""
    /\ pollRet = NoRet
    /\ trace = <<Call("build", TRUE), Call("estimate_gas", TRUE), Call("gas_price", TRUE)>>
    /\ processed = <<>>
    /\ failedAt = 0
    /\ fetchLog = <<"ok">>
    /\ cycleLog = <<1>>
    /\ inflight = {<<1, 1, 1>>}
    /\ outstanding = {}
    /\ onchain = NoTx
    /\ tracked = <<>>
    /\ served = 0
    /\ ran = 0

ProfitSpec == InitProfit /\ [][EstimateProfit]_vars

(***************************************************************************)
(* The receiver policy on its own: relay_transaction is called on a        *)
(* request with a well-formed tip, for every receiver and every relayer    *)
(* address of the sets below.                                              *)
(***************************************************************************)
Receivers ==
    {Addr(n) : n \in {0, 1, 2, 255, 256, 257, 511, 512, 513, 768, 48879, 57005}}
        \cup {AddrAt(k, b) : k \in {1, AddrLen - 2}, b \in {1, 2}}
RelayerAddresses == {RelayerAddress, ThirdParty, Addr(0), Addr(256), AddrAt(1, 1)}
ReceiverRequests ==
    {GaslessTransaction(<<1>>, TipBytes(TipToken, NatWord(100), r)) : r \in Receivers}

InitReceiver ==
    /\ pc = "relay"
    /\ our_address \in RelayerAddresses
    /\ url = 1
    /\ nAddrs = 1
    /\ ip = 1
    /\ txs \in {<<r>> : r \in ReceiverRequests}
    /\ idx = 1
    /\ tip = <<>>
    /\ call = <<>>
    /\ gas_used = <<>>
    /\ gas_price = <<>>
    /\ value = NoRet
    /\ pending_tx = <<>>
    /\ ret = NoRet
    /\ msg = ""
    /\ pollRet = NoRet
    /\ trace = <<>>
    /\ processed = <<>>
    /\ failedAt = 0
    /\ fetchLog = <<"ok">>
    /\ cycleLog = <<1>>
    /\ inflight = {<<1, 1, 1>>}
    /\ outstanding = {}
    /\ onchain = NoTx
    /\ tracked = <<>>
    /\ served = 0
    /\ ran = 0

ReceiverSpec == InitReceiver /\ [][RelayDecode]_vars

(***************************************************************************)
(* relay_transaction on its own, called on one request: every prefix of a  *)
(* tip (every length from 0 to 96 bytes) and a tip with a trailing byte,   *)
(* with an empty and a non-empty cmd.                                      *)
(***************************************************************************)
\* an amount that does not fit 128 bits
WideAmountWord == [i \in 1..WordLen |-> IF i = WordLen \div 2 THEN 1 ELSE 0]

DecodeTips ==
    {TipBytes(TipToken, NatWord(100), r) : r \in {AddressFromStr(OX_100_ADDRESS), ThirdParty}}
        \cup {TipBytes(TipToken, WideAmountWord, RelayerAddress),
               TipBytes(TipToken, NatWord(100), RelayerAddress) \o <<7>>}
DecodeRequests ==
    UNION {{GaslessTransaction(cmd, SubSeq(t, 1, n)) :
                cmd \in {<<>>, <<1>>}, n \in 0..Len(t)} : t \in DecodeTips}

InitDecode ==
    /\ pc = "relay"
    /\ our_address = RelayerAddress
    /\ url = 1
    /\ nAddrs = 1
    /\ ip = 1
    /\ txs \in {<<r>> : r \in DecodeRequests}
    /\ idx = 1
    /\ tip = <<>>
    /\ call = <<>>
    /\ gas_used = <<>>
    /\ gas_price = <<>>
    /\ value = NoRet
    /\ pending_tx = <<>>
    /\ ret = NoRet
    /\ msg = ""
    /\ pollRet = NoRet
    /\ trace = <<>>
    /\ processed = <<>>
    /\ failedAt = 0
    /\ fetchLog = <<"ok">>
    /\ cycleLog = <<1>>
    /\ inflight = {<<1, 1, 1>>}
    /\ outstanding = {}
    /\ onchain = NoTx
    /\ tracked = <<>>
    /\ served = 0
    /\ ran = 0

DecodeSpec == InitDecode /\ [][RelayTransaction]_vars

(***************************************************************************)
(* One poll of one orchestrator URL: process_pending_transactions from its *)
(* call to its return, the instances of one request being counted.         *)
(***************************************************************************)
InitPoll ==
    /\ pc = "resolve"
    /\ our_address = RelayerAddress
    /\ url = 1
    /\ nAddrs = 0
    /\ ip = 0
    /\ txs = <<>>
    /\ idx = 0
    /\ tip = <<>>
    /\ call = <<>>
    /\ gas_used = <<>>
    /\ gas_price = <<>>
    /\ value = NoRet
    /\ pending_tx = <<>>
    /\ ret = NoRet
    /\ msg = ""
    /\ pollRet = NoRet
    /\ trace = <<>>
    /\ processed = <<>>
    /\ failedAt = 0
    /\ fetchLog = <<>>
    /\ cycleLog = <<1>>
    /\ inflight = {}
    /\ outstanding = {}
    /\ onchain = NoTx
    /\ tracked = <<ReqThirdParty>>
    /\ served = 0
    /\ ran = 0

PollNext ==
    \/ ProcessPendingTransactions
    \/ RelayTransaction

PollSpec == InitPoll /\ [][PollNext]_vars

(***************************************************************************)
(* Properties.                                                             *)
(***************************************************************************)
\* relay_transaction is running on tx, or has just returned its outcome
InRelayPcs == {"relay", "build", "estimate_gas", "gas_price", "profit",
               "send", "wait", "receipt"}
Returned == pc = "poll_match"
\* the request has been decoded: relay_transaction is past RelayDecode
Decoded == pc \in (InRelayPcs \ {"relay"}) \/ Returned

\* the external calls made so far for the current request
Ops == {trace[i].op : i \in DOMAIN trace}
Made(op, ok) == \E i \in DOMAIN trace : trace[i] = Call(op, ok)
MadeBefore(op, ok, i) == \E j \in 1..(i - 1) : trace[j] = Call(op, ok)

\* the outcomes of a request, as the return value and the line logged with it
SkippedEmptyTip ==
    Returned /\ ret = Ok(<<>>) /\ msg = "Transaction with no tip data, skipping"
SkippedInvalidReceiver ==
    /\ Returned
    /\ ret = Ok(<<>>)
    /\ msg = "Transaction with invalid receiver address, skipping"
SkippedUnprofitable ==
    Returned /\ ret = Ok(<<>>) /\ msg = "Transaction is not profitable, skipping"
FailedEmptyCmd == Returned /\ ret = Err("Empty transaction command data")

\* nothing was built, simulated, fetched or broadcast for the current request
NoChainInteraction ==
    /\ trace = <<>>
    /\ call = <<>>
    /\ gas_used = <<>>
    /\ gas_price = <<>>
    /\ value = NoRet
    /\ pending_tx = <<>>

\* C1: a transaction is broadcast for a request only if, for that same
\* request, the gas estimation succeeded, the gas price fetch succeeded and
\* the profitability estimator returned true; when the estimator returns
\* false the request ends in the skipped-unprofitable outcome with no
\* broadcast and no confirmation wait.
C1_BroadcastOnlyIfProfitable ==
    /\ \A i \in DOMAIN trace :
          trace[i].op = "send" =>
              /\ MadeBefore("estimate_gas", TRUE, i)
              /\ MadeBefore("gas_price", TRUE, i)
              /\ MadeBefore("estimator", TRUE, i)
    /\ pc \in {"send", "wait", "receipt"} =>
          /\ Made("estimator", TRUE)
          /\ gas_used # <<>>
          /\ gas_price # <<>>
    /\ Made("estimator", FALSE) =>
          /\ SkippedUnprofitable
          /\ Ops \cap {"send", "wait", "receipt"} = {}
          /\ pending_tx = <<>>

\* the estimator answered for a request: one broadcast after a true answer
C1_Witness == pc = "wait" /\ Made("send", TRUE) /\ Made("estimator", TRUE)

\* the receiver of a well-formed tip, read from its last 20 bytes
ReceiverOf(t) == Slice(t.tip, 3 * WordLen - AddrLen, AddrLen)
WellFormedTip(t) ==
    /\ Len(t.tip) >= 3 * WordLen
    /\ parse_u128(t.tip, WordLen).ok
Sinks == {Addr(256), Addr(512)}

\* C2: a request whose decoded tip receiver is neither the relayer's address
\* nor a reserved sink address ends in the invalid-receiver skip, and no
\* call building, gas simulation, gas price fetch, price oracle call or
\* broadcast is made for it.
C2_InvalidReceiverSkipped ==
    (/\ Decoded
     /\ ~CmdIsEmpty(tx)
     /\ WellFormedTip(tx)
     /\ ReceiverOf(tx) \notin Sinks \cup {our_address})
        => SkippedInvalidReceiver /\ NoChainInteraction

C2_Witness ==
    /\ SkippedInvalidReceiver
    /\ WellFormedTip(tx)
    /\ ReceiverOf(tx) = ThirdParty
    /\ idx < Len(txs)

\* C3 as stated: a request whose tip is empty, whatever its other fields,
\* ends in SkippedEmptyTip with no chain interaction.
C3_EmptyTipAlwaysSkipped ==
    (Decoded /\ tx.tip = <<>>) => SkippedEmptyTip /\ NoChainInteraction

\* C3, amended: a request whose tip is empty and whose cmd is not ends in
\* SkippedEmptyTip; one whose cmd is empty too ends in the failure "Empty
\* transaction command data"; in both cases there is no chain interaction.
C3_EmptyTipSkipped ==
    (Decoded /\ tx.tip = <<>>) =>
        /\ NoChainInteraction
        /\ IF tx.cmd = <<>> THEN FailedEmptyCmd ELSE SkippedEmptyTip

C3_Witness == SkippedEmptyTip /\ tx.tip = <<>> /\ tx.cmd # <<>>

\* process_pending_transactions has returned to main
PollReturned == pc = "main_match"
\* the fetch of the current address succeeded and its array is done
ArrayDone == pc = "for_ip" /\ fetchLog # <<>> /\ fetchLog[Len(fetchLog)] = "ok"
UpTo(n) == [i \in 1..n |-> i]

\* C4 as stated: when the fetch from one resolved address fails, the poller
\* continues with the next address, so that every resolved address of the
\* URL has been fetched when the poll returns.
C4_FetchFailureIsolated ==
    (PollReturned /\ nAddrs > 0) => Len(fetchLog) = nAddrs

\* C5: a failure while processing request i never prevents requests i+1..n
\* of the same array from being processed, and never makes
\* process_pending_transactions return an error.
C5_RequestFailureIsolated ==
    /\ processed = UpTo(Len(processed))
    /\ failedAt \in 0..Len(processed)
    /\ ArrayDone => processed = UpTo(Len(txs))
    /\ (PollReturned /\ failedAt # 0) => pollRet = Ok(<<>>) /\ processed = UpTo(Len(txs))
    /\ (PollReturned /\ ~pollRet.ok) => pollRet.err \in FetchFailures \cup {"resolve_err"}

\* a request failed and the requests after it were processed all the same
C5_Witness ==
    /\ PollReturned
    /\ failedAt # 0
    /\ failedAt < Len(txs)
    /\ processed = UpTo(Len(txs))
    /\ pollRet.ok

\* C7, the state part: after a failed price oracle call the estimator has
\* answered not-profitable, nothing is broadcast and relay_transaction has
\* returned Ok(None), not an error.
C7_OracleFailureState ==
    Made("oracle", FALSE) =>
        /\ Made("estimator", FALSE)
        /\ ~Made("estimator", TRUE)
        /\ SkippedUnprofitable
        /\ ~value.ok
        /\ Ops \cap {"send", "wait", "receipt"} = {}

\* C7, the step part: from that outcome the poller goes on with the loop
\* over the requests and returns nothing to main.
C7_OracleFailureStep ==
    (Returned /\ Made("oracle", FALSE)) =>
        /\ pc' = "for_tx"
        /\ processed' = Append(processed, idx)
        /\ failedAt' = failedAt
        /\ UNCHANGED <<txs, idx, pollRet>>

\* C7: when the price oracle call fails the estimator returns not-profitable:
\* the request is not broadcast, no error leaves the estimator, and the
\* poller goes on to the next request of the same poll.
C7_OracleFailClosed == []C7_OracleFailureState /\ [][C7_OracleFailureStep]_vars

C7_Witness ==
    /\ Returned
    /\ Made("oracle", FALSE)
    /\ value = Err("status_err")
    /\ idx < Len(txs)

C6_CycleOrder ==
    /\ cycleLog = UpTo(url)
    /\ url \in 0..NumUrls
    /\ pc = "sleep" => cycleLog = UpTo(NumUrls)

\* C6: an error returned by the poll of one URL neither keeps the remaining
\* URLs from being polled in the same cycle nor stops the loop: each cycle
\* polls every URL once, in order, then sleeps, and every URL is polled
\* infinitely often.
C6_RelayLoop ==
    /\ []C6_CycleOrder
    /\ \A u \in 1..NumUrls : []<>(pc = "resolve" /\ url = u)
    /\ []<>(pc = "sleep")

\* the poll of a URL that is not the last returned an error and the next URL
\* is being polled
C6_Witness == pc = "resolve" /\ url > 1 /\ ~pollRet.ok

\* the integer of a Uint256 below Limb^2
ToNat(a) == IF a = <<>> THEN 0 ELSE IF Len(a) = 1 THEN a[1] ELSE a[1] + Limb * a[2]
SmallEnough(a, max) == Len(a) <= 2 /\ ToNat(a) <= max

\* 462000000000000 and 462000000000001 in digits of 10000
ExampleThreshold == <<0, 0, 0, 462>>
ExampleAbove == <<1, 0, 0, 462>>

\* C8: with v the tip's value in gas-token units, the estimator returns true
\* iff v > gas_used * gas_price + floor(gas_used * gas_price / 10); with
\* gas_used = 21000 and gas_price = 20000000000, v = 462000000000000 is
\* rejected and v = 462000000000001 is accepted.
C8_StrictMargin ==
    (pc # "profit" /\ value.ok) =>
        LET v == value.val
            g == gas_used[1]
            p == gas_price[1]
            profitable == Made("estimator", TRUE)
        IN  /\ profitable <=> ~Made("estimator", FALSE)
            /\ profitable <=> pc = "send"
            /\ (SmallEnough(v, 30000 * 30000) /\ SmallEnough(g, 30000)
                    /\ SmallEnough(p, 30000)) =>
                  (profitable <=>
                      ToNat(v) > ToNat(g) * ToNat(p) + (ToNat(g) * ToNat(p)) \div 10)
            /\ (g = <<1000, 2>> /\ p = <<0, 0, 200>>) =>
                  /\ v = ExampleThreshold => ~profitable
                  /\ v = ExampleAbove => profitable
                  /\ SmallEnough(v, 30000 * 30000) => ~profitable

C8_Witness ==
    /\ pc = "send"
    /\ gas_used = <<(<<1000, 2>>)>>
    /\ gas_price = <<(<<0, 0, 200>>)>>
    /\ value = Ok(ExampleAbove)
    /\ Made("estimator", TRUE)

\* C9: is_valid_receiver_address(receiver, our_address) is true iff receiver
\* is our_address, 0x...0100 or 0x...0200.
C9_ReceiverPolicy ==
    pc # "relay" =>
        /\ pc = "build" <=> ReceiverOf(tx) \in Sinks \cup {our_address}
        /\ pc # "build" => SkippedInvalidReceiver

C9_Witness ==
    /\ pc = "build"
    /\ ReceiverOf(tx) = Addr(256)
    /\ our_address = RelayerAddress

\* the outcomes that carry a hash, and the failures
Submitted == Returned /\ ret.ok /\ ret.val # <<>>
Failed == Returned /\ ~ret.ok

\* C11 as stated: after a successful broadcast the request reaches the
\* submitted outcome only once confirmation_blocks blocks have elapsed for
\* the transaction; when the timeout fires first or the wait returns an RPC
\* error the outcome is a failure.
C11_ConfirmedAfterBlocks ==
    /\ Submitted => onchain.blocks >= confirmation_blocks
    /\ Made("wait", FALSE) => Failed

\* the calls of a request for which everything succeeds, in order
HappyPath ==
    <<Call("build", TRUE), Call("estimate_gas", TRUE), Call("gas_price", TRUE),
      Call("oracle", TRUE), Call("estimator", TRUE), Call("send", TRUE),
      Call("wait", TRUE), Call("receipt", TRUE)>>
IsPrefix(a, b) == Len(a) <= Len(b) /\ a = SubSeq(b, 1, Len(a))
\* every external call made so far for the current request succeeded
AllCallsOk == \A i \in DOMAIN trace : trace[i].op # "estimator" => trace[i].ok
\* how many calls of HappyPath are behind relay_transaction at each statement
CallsBefore ==
    [p \in InRelayPcs |->
        CASE p \in {"relay", "build"} -> 0
          [] p = "estimate_gas" -> 1
          [] p = "gas_price" -> 2
          [] p = "profit" -> 3
          [] p = "send" -> 5
          [] p = "wait" -> 6
          [] p = "receipt" -> 7]

\* C12: for a request with non-empty cmd and a well-formed tip whose receiver
\* is a reserved sink address and whose oracle value exceeds the
\* margin-adjusted gas cost, when every external call succeeds, the calls
\* made are call building, gas simulation, gas price fetch, profitability
\* check, broadcast and confirmation wait, in this order, and
\* relay_transaction returns the success outcome with the hash the broadcast
\* returned.
C12_HappyPath ==
    (/\ Decoded
     /\ tx.cmd # <<>>
     /\ WellFormedTip(tx)
     /\ ReceiverOf(tx) \in Sinks
     /\ AllCallsOk
     /\ Made("oracle", TRUE) =>
            U256Gt[value.val, MarginGasEstimate(gas_used[1], gas_price[1])])
        => /\ IsPrefix(trace, HappyPath)
           /\ pc \in InRelayPcs => Len(trace) = CallsBefore[pc]
           /\ Returned =>
                 /\ trace = HappyPath
                 /\ onchain.hash \in Hashes
                 /\ ret = Ok(<<onchain.hash>>)

C12_Witness ==
    /\ Returned
    /\ trace = HappyPath
    /\ ReceiverOf(tx) = Addr(512)
    /\ ret = Ok(<<2>>)

FailedMalformedTip == Returned /\ ret = Err("parse_err")
TipLen == 3 * WordLen

\* C13 as stated: for every tip shorter than 96 bytes the decoding fails
\* with MalformedTip, no DecodedTip is produced and the request is dropped
\* with no call building, gas simulation or broadcast.
C13_ShortTipMalformed ==
    (Decoded /\ Len(tx.tip) < TipLen) =>
        /\ FailedMalformedTip
        /\ tip = <<>>
        /\ NoChainInteraction

\* C13, amended: for every non-empty tip shorter than 96 bytes of a request
\* whose cmd is not empty the decoding fails and relay_transaction returns
\* the decoding error; an empty tip is skipped (SkippedEmptyTip) and a
\* request whose cmd is empty fails on its cmd, both before any decoding.
\* For every tip shorter than 96 bytes no decoded tip, partial or not, is
\* produced and the request is dropped with no call building, gas
\* simulation or broadcast.
C13_ShortTipDropped ==
    (Decoded /\ Len(tx.tip) < TipLen) =>
        /\ IF tx.cmd = <<>> THEN FailedEmptyCmd
           ELSE IF tx.tip = <<>> THEN SkippedEmptyTip
           ELSE FailedMalformedTip
        /\ tip = <<>>
        /\ NoChainInteraction

\* the longest tip that is too short
C13_Witness ==
    /\ FailedMalformedTip
    /\ tx.cmd # <<>>
    /\ Len(tx.tip) = TipLen - 1
    /\ tip = <<>>

\* C18: a request whose cmd is empty returns the failure "Empty transaction
\* command data" whatever its tip (empty, too short, unparsable, with a
\* valid or an invalid receiver): no decoded tip is kept and no call
\* building, gas simulation, oracle call or broadcast is made.
C18_EmptyCmdFails ==
    (Decoded /\ tx.cmd = <<>>) =>
        /\ FailedEmptyCmd
        /\ msg = "Transaction command data is empty, skipping transaction"
        /\ tip = <<>>
        /\ NoChainInteraction

\* an empty cmd with a tip that would have been relayed
C18_Witness ==
    /\ FailedEmptyCmd
    /\ Len(tx.tip) = TipLen
    /\ ReceiverOf(tx) = Addr(256)
    /\ parse_u128(tx.tip, WordLen).ok

\* how often op was called for the current request
Times(op) == Cardinality({i \in DOMAIN trace : trace[i].op = op})
LastCall == trace[Len(trace)]

\* C14: when the gas simulation of the built call fails, or the gas price
\* fetch fails, relay_transaction returns the failure: the price oracle is
\* not queried, nothing is broadcast, the failed call is not made again and
\* the request instance was not processed before in this array.
C14_GasFailureDrops ==
    (Made("estimate_gas", FALSE) \/ Made("gas_price", FALSE)) =>
        /\ Failed
        /\ ret.err \in {"estimate_gas_err", "gas_price_err"}
        /\ LastCall \in {Call("estimate_gas", FALSE), Call("gas_price", FALSE)}
        /\ Ops \cap {"oracle", "estimator", "send", "wait", "receipt"} = {}
        /\ Times("estimate_gas") = 1
        /\ Times("gas_price") <= 1
        /\ value = NoRet
        /\ pending_tx = <<>>
        /\ onchain = NoTx
        /\ processed = UpTo(idx - 1)

\* the gas price fetch failed after a successful simulation
C14_Witness ==
    /\ Failed
    /\ trace = <<Call("build", TRUE), Call("estimate_gas", TRUE),
                 Call("gas_price", FALSE)>>
    /\ ret = Err("gas_price_err")

\* the requests of txs after the one at index i
Rest(i) == SubSeq(txs, i + 1, Len(txs))

\* C15: within one poll every request instance of every fetched array is
\* run through relay_transaction exactly once, in order, with one outcome,
\* every call (the broadcast among them) being made at most once for it;
\* the instances of a request served by several addresses are all run,
\* nothing being deduplicated across addresses.
C15_OncePerInstance ==
    /\ processed = UpTo(Len(processed))
    /\ Len(processed) <= Len(txs)
    /\ (pc \in InRelayPcs \/ Returned) => processed = UpTo(idx - 1)
    /\ pc = "for_tx" => processed = UpTo(idx)
    /\ ArrayDone => processed = UpTo(Len(txs))
    /\ \A op \in Ops : Times(op) = 1
    /\ ran <= served
    /\ pc \in {"for_tx"} \cup InRelayPcs \cup {"poll_match"} =>
          served - ran = Count(Rest(idx))
    /\ pc \in {"for_ip", "fetch", "main_match"} => ran = served

\* the second of two addresses served the request the first had served, and
\* it was run both times
C15_Witness ==
    /\ PollReturned
    /\ pollRet.ok
    /\ nAddrs = 2
    /\ txs = tracked
    /\ served = 2
    /\ ran = 2

\* C16, the state part: a request starts with no gas estimate and no gas
\* price; each is held exactly when the RPC that returns it has succeeded
\* for this request, and both have when the estimator answers; none is held
\* between two requests.
C16_FreshState ==
    /\ pc = "relay" => gas_used = <<>> /\ gas_price = <<>> /\ trace = <<>>
    /\ pc \notin InRelayPcs \cup {"poll_match"} => gas_used = <<>> /\ gas_price = <<>>
    /\ gas_used # <<>> <=> Made("estimate_gas", TRUE)
    /\ gas_price # <<>> <=> Made("gas_price", TRUE)
    /\ \A i \in DOMAIN trace :
          trace[i].op = "estimator" =>
              /\ MadeBefore("estimate_gas", TRUE, i)
              /\ MadeBefore("gas_price", TRUE, i)
    /\ pc = "profit" => Times("estimate_gas") = 1 /\ Times("gas_price") = 1

\* C16, the step part: the gas estimate and the gas price are set only by
\* the successful RPC of the current request, from unset, and cleared only
\* when relay_transaction has returned.
C16_FreshStep ==
    /\ gas_used' # gas_used =>
          \/ /\ pc = "estimate_gas"
             /\ gas_used = <<>>
             /\ trace' = Append(trace, Call("estimate_gas", TRUE))
             /\ gas_used' \in {<<g>> : g \in GasUsedSet}
          \/ pc = "poll_match" /\ gas_used' = <<>>
    /\ gas_price' # gas_price =>
          \/ /\ pc = "gas_price"
             /\ gas_price = <<>>
             /\ trace' = Append(trace, Call("gas_price", TRUE))
             /\ gas_price' \in {<<g>> : g \in GasPriceSet}
          \/ pc = "poll_match" /\ gas_price' = <<>>
    /\ (pc = "profit" /\ pc' # "profit") => UNCHANGED <<gas_used, gas_price>>

\* C16: the gas estimate and the gas price used in the profitability
\* decision of a request are the values the chain RPC returned while that
\* request was being processed; no value of an earlier request or cycle is
\* used again.
C16_FreshGas == []C16_FreshState /\ [][C16_FreshStep]_vars

\* the second request of an array is about to be decided on the values its
\* own two RPCs returned
C16_Witness ==
    /\ pc = "profit"
    /\ idx = 2
    /\ gas_used = <<U256FromNat[20]>>
    /\ gas_price = <<U256FromNat[5]>>
    /\ trace = <<Call("build", TRUE), Call("estimate_gas", TRUE), Call("gas_price", TRUE)>>

\* the outcome of a confirmation wait that timed out
ConfirmationTimeout == Returned /\ ret = Err("timeout")

C19_ReceiptIgnored ==
    /\ (Returned /\ Made("wait", TRUE)) =>
          /\ Submitted
          /\ ret = Ok(<<onchain.hash>>)
          /\ onchain.hash \in Hashes
          /\ ret = Ok(pending_tx)
          /\ Times("receipt") = 1
          /\ LastCall.op = "receipt"
    /\ Made("receipt", TRUE) \/ Made("receipt", FALSE) =>
          Returned /\ LastCall.op = "receipt"
    /\ pc = "receipt" => LastCall = Call("wait", TRUE) /\ pending_tx = <<onchain.hash>>

\* the receipt query failed and the outcome is the success all the same
C19_Witness ==
    /\ Submitted
    /\ LastCall = Call("receipt", FALSE)
    /\ ret = Ok(<<2>>)

====
